---- MODULE Spec2Model ----
(***************************************************************************)
(* Model of the CIS people-directory scraper (scraper.py).                 *)
(*                                                                         *)
(* Python strings are sequences of one-character strings, so that          *)
(* str.startswith, str.strip, str.split and slicing are computed on        *)
(* characters as the code computes them.                                   *)
(*                                                                         *)
(* Three specifications:                                                   *)
(*   SpecSplit    parse_name_and_honorific applied to bounded inputs       *)
(*   SpecExtract  extract_people_data scanning one bounded page            *)
(*   SpecMain     main(): the crawl, with fetch_page and its two           *)
(*                strategies, the category sweep and the persistence       *)
(***************************************************************************)
EXTENDS Integers, Sequences, FiniteSets, TLC

VARIABLES
    \* ---- parse_name_and_honorific ----
    full_name,          \* the argument
    split_pc,           \* "ready" | "once" | "twice"
    first,              \* parse_name_and_honorific(full_name)
    second,             \* parse_name_and_honorific(first.name)
    \* ---- extract_people_data ----
    page,               \* soup: the elements of the document, in document order
    default_category,   \* the argument: [given, val]; not given is None
    ex_pc,              \* "begin" | "loop" | "done"
    cards,              \* soup.find_all('div', class_='card'): positions in page
    card_n,             \* how many cards the for loop has gone through
    current_category,
    people,
    \* ---- main, fetch_page, fetch_page_selenium ----
    SELENIUM_AVAILABLE, \* the module global set by the imports
    use_selenium,       \* main's parameter (and local: line 233 may clear it)
    scrape_subpages,    \* main's parameter
    pc,                 \* where the run is
    site,               \* the call of fetch_page under way: "landing" (line
                        \* 234), "retry" (line 246) or "category" (line 265)
    fp_sel,             \* fetch_page's argument use_selenium
    fetched,            \* what the fetch under way returns, until the caller
                        \* has taken it
    pending,            \* fetch_page_selenium's try block: "return" or "raise",
                        \* held while the finally clause runs
    sessions,           \* browser sessions open (launched and not quit)
    soup,               \* the landing page
    category_links,
    link_i,             \* position of the category loop in category_links
    all_people,
    json_file,          \* people_data.json: [exists, content]
    csv_file,           \* people_data.csv: [exists, content]
    returned,           \* main's return value, None before it returns
    \* ---- history, for stating the properties ----
    called_with,        \* the use_selenium main was called with
    prior_json,         \* the files as the run found them
    prior_csv,
    fetch_log,          \* the fetch attempts made: [target, how], target 0
                        \* for the landing page, k for the k-th category link
    outcomes            \* per category link visited: [ok, soup]

split_vars == <<full_name, split_pc, first, second>>

ex_vars == <<page, default_category, ex_pc, cards, card_n, current_category, people>>

main_vars ==
    <<SELENIUM_AVAILABLE, use_selenium, scrape_subpages, pc, site, fp_sel, fetched,
      pending, sessions, soup, category_links, link_i, all_people, json_file,
      csv_file, returned, called_with, prior_json, prior_csv, fetch_log, outcomes>>

vars == <<split_vars, ex_vars, main_vars>>

-----------------------------------------------------------------------------
(* Bounds of the model *)

\* how many pieces an input string of SpecSplit is concatenated from
MaxParts == 3

\* how many elements (headings, cards) a page of SpecExtract holds
MaxElems == 3

\* how many links the pathfinder of a landing page holds
MaxLinks == 2

-----------------------------------------------------------------------------
(* A specification leaves the variables of the other two at rest *)

\* an optional argument: None, or a value
None == [given |-> FALSE, val |-> <<>>]
Some(v) == [given |-> TRUE, val |-> v]

\* no result yet
NoResult == [name |-> <<>>, honorific |-> <<"?">>]

IdleSplit ==
    /\ full_name = <<>>
    /\ split_pc = "idle"
    /\ first = NoResult
    /\ second = NoResult

IdleExtract ==
    /\ page = <<>>
    /\ default_category = None
    /\ ex_pc = "idle"
    /\ cards = <<>>
    /\ card_n = 0
    /\ current_category = <<>>
    /\ people = <<>>

NoFile == [exists |-> FALSE, content |-> <<>>]

IdleMain ==
    /\ SELENIUM_AVAILABLE = FALSE
    /\ use_selenium = FALSE
    /\ scrape_subpages = FALSE
    /\ pc = "idle"
    /\ site = "none"
    /\ fp_sel = FALSE
    /\ fetched = <<>>
    /\ pending = "none"
    /\ sessions = 0
    /\ soup = <<>>
    /\ category_links = <<>>
    /\ link_i = 0
    /\ all_people = <<>>
    /\ json_file = NoFile
    /\ csv_file = NoFile
    /\ returned = None
    /\ called_with = FALSE
    /\ prior_json = NoFile
    /\ prior_csv = NoFile
    /\ fetch_log = <<>>
    /\ outcomes = <<>>

-----------------------------------------------------------------------------
(* Python str operations, on sequences of characters *)

Max(S) == CHOOSE x \in S : \A y \in S : y <= x
Min(S) == CHOOSE x \in S : \A y \in S : x <= y

\* str.isspace for one character: the whitespace the pages carry
IsSpace(c) == c \in {" ", "\n"}

\* s.startswith(p)
StartsWith(s, p) == Len(s) >= Len(p) /\ SubSeq(s, 1, Len(p)) = p

\* s[n:]
DropFirst(s, n) == SubSeq(s, n + 1, Len(s))

\* s.lstrip()
RECURSIVE LStrip(_)
LStrip(s) == IF s # <<>> /\ IsSpace(Head(s)) THEN LStrip(Tail(s)) ELSE s

\* s.rstrip()
RECURSIVE RStrip(_)
RStrip(s) ==
    IF s # <<>> /\ IsSpace(s[Len(s)]) THEN RStrip(SubSeq(s, 1, Len(s) - 1)) ELSE s

\* s.strip()
Strip(s) == RStrip(LStrip(s))

\* s.split(): the maximal runs of non-whitespace characters, in order
RECURSIVE SplitWords(_, _, _)
SplitWords(s, cur, acc) ==
    IF s = <<>>
    THEN IF cur = <<>> THEN acc ELSE Append(acc, cur)
    ELSE IF IsSpace(Head(s))
         THEN SplitWords(Tail(s), <<>>, IF cur = <<>> THEN acc ELSE Append(acc, cur))
         ELSE SplitWords(Tail(s), Append(cur, Head(s)), acc)

\* ' '.join(words)
RECURSIVE JoinSpace(_)
JoinSpace(words) ==
    IF words = <<>> THEN <<>>
    ELSE IF Len(words) = 1 THEN words[1]
    ELSE words[1] \o <<" ">> \o JoinSpace(Tail(words))

\* ' '.join(s.split())
Normalize(s) == JoinSpace(SplitWords(s, <<>>, <<>>))

-----------------------------------------------------------------------------
(* parse_name_and_honorific *)

Prof      == <<"P","r","o","f">>
AProf     == <<"A","/","P","r","o","f">>
AssocProf == <<"A","s","s","o","c"," ","P","r","o","f">>
Dr        == <<"D","r">>
Mr        == <<"M","r">>
Mrs       == <<"M","r","s">>
Ms        == <<"M","s">>
Miss      == <<"M","i","s","s">>

\* the list of the code, in the code's order
honorifics == <<Prof, AProf, AssocProf, Dr, Mr, Mrs, Ms, Miss>>

\* a plausible slip: the prefix alone, without the separating space
HonorificMatches_nospace(s, h) == StartsWith(s, h)

\* full_name.startswith(honorific + ' ')
HonorificMatches(s, h) == StartsWith(s, h \o <<" ">>)

\* a plausible slip: the remainder is returned as sliced, not stripped
parse_name_and_honorific_nostrip(fn) ==
    LET s == Strip(fn)
        hits == {i \in 1..Len(honorifics) : HonorificMatches(s, honorifics[i])}
    IN  IF hits = {}
        THEN [name |-> s, honorific |-> <<>>]
        ELSE LET h == honorifics[Min(hits)]
             IN  [name |-> DropFirst(s, Len(h)), honorific |-> h]

\* the first honorific of the list that matches decides; (name, honorific)
parse_name_and_honorific(fn) ==
    LET s == Strip(fn)
        hits == {i \in 1..Len(honorifics) : HonorificMatches(s, honorifics[i])}
    IN  IF hits = {}
        THEN [name |-> s, honorific |-> <<>>]
        ELSE LET h == honorifics[Min(hits)]
             IN  [name |-> Strip(DropFirst(s, Len(h))), honorific |-> h]

-----------------------------------------------------------------------------
(* The parsed page. An element is a level-2 heading, a div.card or a         *)
(* ul.pathfinder-3; what the code never looks at is left out.                *)

\* <h2 id=...>text</h2>; id: whether the tag carries an id attribute
H2(hasId, text) == [kind |-> "h2", id |-> hasId, text |-> text]

\* <div class="card">: header: it holds an h3.card__header; link: the header
\* holds an <a>; text: the text of the link, or of the header without a link;
\* href: the link's href ("" when absent); sub: it holds a
\* div.card__sub-heading, with text subtext
Card(header, link, text, href, sub, subtext) ==
    [kind |-> "card", header |-> header, link |-> link, text |-> text,
     href |-> href, sub |-> sub, subtext |-> subtext]

\* <ul class="pathfinder-3">: links: its <a href=...>, each [h3, name, href]
\* with h3: the link holds an <h3>, name: the text of that h3
Ul(links) == [kind |-> "ul", links |-> links]

General         == <<"G","e","n","e","r","a","l">>
FeaturedContent == <<"F","e","a","t","u","r","e","d"," ","c","o","n","t","e","n","t">>
SiteFooter      == <<"S","i","t","e"," ","f","o","o","t","e","r">>
NA              == <<"N","/","A">>
Origin          == <<"h","t","t","p","s",":","/","/","c","i","s",".","u","n","i","m","e","l","b",".","e","d","u",".","a","u">>
Http            == <<"h","t","t","p">>

\* tag.get_text(strip=True) of a tag holding one string
get_text_strip(text) == Strip(text)

Positions(pg) == [i \in 1..Len(pg) |-> i]

\* soup.find_all('div', class_='card'), as positions in the page
find_all_cards(pg) == SelectSeq(Positions(pg), LAMBDA i : pg[i].kind = "card")

\* a plausible slip: any h2, with or without an id
find_previous_h2_anyid(pg, i) ==
    LET S == {j \in 1..(i - 1) : pg[j].kind = "h2"}
    IN  IF S = {} THEN 0 ELSE Max(S)

\* card.find_previous('h2', id=True): the position of the nearest h2 before
\* position i that carries an id, 0 for None
find_previous_h2(pg, i) ==
    LET S == {j \in 1..(i - 1) : pg[j].kind = "h2" /\ pg[j].id}
    IN  IF S = {} THEN 0 ELSE Max(S)

\* a plausible slip: a boilerplate or empty heading resets the category
category_after_reset(cur, pg, i) ==
    LET j == find_previous_h2(pg, i)
    IN  IF j = 0 THEN cur
        ELSE LET section_text == get_text_strip(pg[j].text)
             IN  IF section_text # <<>> /\ section_text \notin {FeaturedContent, SiteFooter}
                 THEN section_text
                 ELSE General

\* current_category after the header check of the card at position i
category_after(cur, pg, i) ==
    LET j == find_previous_h2(pg, i)
    IN  IF j = 0 THEN cur
        ELSE LET section_text == get_text_strip(pg[j].text)
             IN  IF section_text # <<>> /\ section_text \notin {FeaturedContent, SiteFooter}
                 THEN section_text
                 ELSE cur

\* the profile URL of a name link
resolve_profile_url(href) ==
    IF StartsWith(href, Http) THEN href
    ELSE IF StartsWith(href, <<"/">>) THEN Origin \o href
    ELSE Origin \o <<"/">> \o href

\* person_data of a card that holds a header, with the category cat
card_person(card, cat) ==
    LET split == IF card.link
                 THEN parse_name_and_honorific(Normalize(card.text))
                 ELSE parse_name_and_honorific(get_text_strip(card.text))
    IN  [name        |-> split.name,
         honorific   |-> split.honorific,
         profile_url |-> IF card.link THEN resolve_profile_url(card.href) ELSE NA,
         title       |-> IF card.sub THEN get_text_strip(card.subtext) ELSE NA,
         category    |-> cat]

\* default_category or 'General'
initial_category(dc) == IF dc.given /\ dc.val # <<>> THEN dc.val ELSE General

\* one iteration of the for loop, on the card at position i:
\* st = [cat, people] before, the result after
extract_card(st, pg, i) ==
    LET cat == category_after(st.cat, pg, i)
    IN  [cat    |-> cat,
         people |-> IF pg[i].header
                    THEN Append(st.people, card_person(pg[i], cat))
                    ELSE st.people]

RECURSIVE extract_loop(_, _, _, _)
extract_loop(st, pg, cs, n) ==
    IF n > Len(cs) THEN st
    ELSE extract_loop(extract_card(st, pg, cs[n]), pg, cs, n + 1)

\* extract_people_data(soup, default_category), as one function
extract_people_data(pg, dc) ==
    extract_loop([cat |-> initial_category(dc), people |-> <<>>],
                 pg, find_all_cards(pg), 1).people

-----------------------------------------------------------------------------
(* SpecExtract: extract_people_data, one loop iteration per step *)

H1Text == <<"H","1">>
H2Text == <<"H","2">>
H3Text == <<"H","3">>

HeadingH1       == H2(TRUE, H1Text)
HeadingH2       == H2(TRUE, <<"\n">> \o H2Text \o <<" ">>)
HeadingEmpty    == H2(TRUE, <<" ">>)
HeadingFeatured == H2(TRUE, FeaturedContent)
HeadingFooter   == H2(TRUE, SiteFooter)
HeadingNoId     == H2(FALSE, H3Text)

Headings ==
    {HeadingH1, HeadingH2, HeadingEmpty, HeadingFeatured, HeadingFooter, HeadingNoId}

JaneDoe        == <<"J","a","n","e"," ","D","o","e">>
SeniorLecturer == <<"S","e","n","i","o","r"," ","L","e","c","t","u","r","e","r">>
ResearchFellows == <<"R","e","s","e","a","r","c","h"," ","F","e","l","l","o","w","s">>

CardNoHeader == Card(FALSE, FALSE, <<>>, <<>>, TRUE, SeniorLecturer)
CardJane     == Card(TRUE, TRUE, <<"P","r","o","f","\n"," "," ","J","a","n","e"," ","D","o","e">>,
                     <<"/","s","t","a","f","f","/","j","d","o","e">>, TRUE, SeniorLecturer)
CardLee      == Card(TRUE, FALSE, <<" ","D","r"," ","A"," ","L","e","e">>, <<>>, FALSE, <<>>)
CardEmptyLink == Card(TRUE, TRUE, <<"\n">>, <<"j","o","h","n">>, FALSE, <<>>)
CardAbsolute == Card(TRUE, TRUE, JaneDoe, <<"h","t","t","p",":","/","/","x",".","a","u","/","p">>, FALSE, <<>>)
CardHttpRel  == Card(TRUE, TRUE, JaneDoe, <<"h","t","t","p","d","o","c","s","/","j","o","h","n">>, FALSE, <<>>)
CardFtp      == Card(TRUE, TRUE, JaneDoe, <<"f","t","p",":","/","/","x",".","a","u","/","p">>, FALSE, <<>>)

Cards ==
    {CardNoHeader, CardJane, CardLee, CardEmptyLink, CardAbsolute, CardHttpRel, CardFtp}

Elements == Headings \cup Cards

RECURSIVE SeqsUpTo(_, _)
SeqsUpTo(S, n) ==
    IF n = 0 THEN {<<>>}
    ELSE LET shorter == SeqsUpTo(S, n - 1)
         IN  shorter \cup {Append(q, e) : q \in shorter, e \in S}

\* the page of the specification's category scenario:
\* H1, cards A, B, H2, card C, "Site footer", card D
ScenarioPage ==
    <<HeadingH1, CardJane, CardLee, HeadingH2, CardJane, HeadingFooter, CardLee>>

Pages == SeqsUpTo(Elements, MaxElems) \cup {ScenarioPage}

DefaultCategories == {None, Some(<<>>), Some(ResearchFellows)}

InitExtract ==
    /\ page \in Pages
    /\ default_category \in DefaultCategories
    /\ ex_pc = "begin"
    /\ cards = <<>>
    /\ card_n = 0
    /\ current_category = <<>>
    /\ people = <<>>
    /\ IdleSplit
    /\ IdleMain

\* people = []; cards = soup.find_all(...); current_category = default or 'General'
ExtractBegin ==
    /\ ex_pc = "begin"
    /\ people' = <<>>
    /\ cards' = find_all_cards(page)
    /\ current_category' = initial_category(default_category)
    /\ card_n' = 0
    /\ ex_pc' = "loop"
    /\ UNCHANGED <<page, default_category, split_vars, main_vars>>

\* one iteration of "for card in cards"
ExtractCard ==
    /\ ex_pc = "loop"
    /\ card_n < Len(cards)
    /\ LET st == extract_card([cat |-> current_category, people |-> people],
                              page, cards[card_n + 1])
       IN  /\ current_category' = st.cat
           /\ people' = st.people
    /\ card_n' = card_n + 1
    /\ UNCHANGED <<page, default_category, ex_pc, cards, split_vars, main_vars>>

\* return people
ExtractReturn ==
    /\ ex_pc = "loop"
    /\ card_n = Len(cards)
    /\ ex_pc' = "done"
    /\ UNCHANGED <<page, default_category, cards, card_n, current_category,
                   people, split_vars, main_vars>>

NextExtract == ExtractBegin \/ ExtractCard \/ ExtractReturn

SpecExtract == InitExtract /\ [][NextExtract]_vars

-----------------------------------------------------------------------------
(* find_category_links, save_to_json, save_to_csv *)

\* base_url.rstrip('/')
RECURSIVE RStripSlash(_)
RStripSlash(u) ==
    IF u # <<>> /\ u[Len(u)] = "/" THEN RStripSlash(SubSeq(u, 1, Len(u) - 1)) ELSE u

\* the absolute URL of a category link
resolve_category_url(href, base_url) ==
    IF StartsWith(href, <<"/">>) THEN RStripSlash(base_url) \o href
    ELSE IF StartsWith(href, Http) THEN href
    ELSE RStripSlash(base_url) \o <<"/">> \o href

\* the (category_name, url) of the links of one pathfinder that hold an h3
pathfinder_links(links, base_url) ==
    LET withH3 == SelectSeq(links, LAMBDA l : l.h3)
    IN  [k \in 1..Len(withH3) |->
            [name |-> get_text_strip(withH3[k].name),
             url  |-> resolve_category_url(withH3[k].href, base_url)]]

\* find_category_links(soup, base_url): over the ul.pathfinder-3 of the page,
\* in document order
RECURSIVE find_category_links(_, _)
find_category_links(pg, base_url) ==
    IF pg = <<>> THEN <<>>
    ELSE (IF Head(pg).kind = "ul" THEN pathfinder_links(Head(pg).links, base_url)
          ELSE <<>>)
         \o find_category_links(Tail(pg), base_url)

\* a plausible slip: the file is opened for appending
save_to_json_append(file, data) ==
    [exists |-> TRUE, content |-> file.content \o data]

\* save_to_json(data): the file opened with 'w' holds the array of the records
save_to_json(file, data) ==
    [exists |-> TRUE, content |-> data]

fieldnames == <<"name", "honorific", "title", "category", "profile_url">>

\* save_to_csv(data): nothing is written for no data; else the header row,
\* then one row per record, in the column order of fieldnames
save_to_csv(file, data) ==
    IF data = <<>> THEN file
    ELSE [exists  |-> TRUE,
          content |-> <<fieldnames>> \o
                      [n \in 1..Len(data) |->
                          [c \in 1..Len(fieldnames) |-> data[n][fieldnames[c]]]]]

-----------------------------------------------------------------------------
(* SpecMain: one run of main() *)

LinkFellows == [h3 |-> TRUE, name |-> ResearchFellows, href |-> <<"/","p","e","o","p","l","e","/","r","f">>]
LinkStaff   == [h3 |-> TRUE, name |-> <<" ","S","t","a","f","f">>, href |-> <<"s","t","a","f","f">>]
LinkNoH3    == [h3 |-> FALSE, name |-> <<>>, href |-> <<"/","a","b","o","u","t">>]

LinkKinds == {LinkFellows, LinkStaff, LinkNoH3}

\* what the network serves for the landing page
LandingPages ==
    {c \o <<Ul(ls)>> : c \in {<<>>, <<CardJane>>}, ls \in SeqsUpTo(LinkKinds, MaxLinks)}

\* what the network serves for a category page
CategoryPages == {<<>>, <<CardLee>>, <<HeadingH1, CardJane, CardEmptyLink>>}

ServedFor(s) == IF s = "category" THEN CategoryPages ELSE LandingPages

\* the snapshot an earlier run has left
OldPeople == <<card_person(CardLee, General)>>

\* the URL the fetch under way is for: 0 the landing page, k the k-th link
Target == IF site = "category" THEN link_i ELSE 0

InitMain ==
    /\ SELENIUM_AVAILABLE \in BOOLEAN
    /\ use_selenium \in BOOLEAN
    /\ scrape_subpages \in BOOLEAN
    /\ pc = "main"
    /\ site = "none"
    /\ fp_sel = FALSE
    /\ fetched = <<>>
    /\ pending = "none"
    /\ sessions = 0
    /\ soup = <<>>
    /\ category_links = <<>>
    /\ link_i = 0
    /\ all_people = <<>>
    /\ \/ json_file = NoFile /\ csv_file = NoFile
       \/ /\ json_file = save_to_json(NoFile, OldPeople)
          /\ csv_file = save_to_csv(NoFile, OldPeople)
    /\ returned = None
    /\ called_with = use_selenium
    /\ prior_json = json_file
    /\ prior_csv = csv_file
    /\ fetch_log = <<>>
    /\ outcomes = <<>>
    /\ IdleSplit
    /\ IdleExtract

others == <<split_vars, ex_vars, SELENIUM_AVAILABLE, scrape_subpages, called_with,
            prior_json, prior_csv>>

\* lines 226-234: all_people = []; without Selenium, use_selenium is cleared;
\* fetch_page(base_url, use_selenium=use_selenium) is called
MainBegin ==
    /\ pc = "main"
    /\ all_people' = <<>>
    /\ use_selenium' = (use_selenium /\ SELENIUM_AVAILABLE)
    /\ site' = "landing"
    /\ fp_sel' = use_selenium'
    /\ pc' = "fetch_page"
    /\ UNCHANGED <<fetched, pending, sessions, soup, category_links, link_i,
                   json_file, csv_file, returned, fetch_log, outcomes, others>>

\* fetch_page, lines 80-86: the strategy is chosen
FetchPage ==
    /\ pc = "fetch_page"
    /\ pc' = IF fp_sel
             THEN IF ~SELENIUM_AVAILABLE THEN "raised" ELSE "selenium"
             ELSE "requests"
    /\ UNCHANGED <<use_selenium, site, fp_sel, fetched, pending, sessions, soup,
                   category_links, link_i, all_people, json_file, csv_file,
                   returned, fetch_log, outcomes, others>>

\* fetch_page_requests returns the parsed page
RequestsOk ==
    /\ pc = "requests"
    /\ \E pg \in ServedFor(site) : fetched' = pg
    /\ fetch_log' = Append(fetch_log, [target |-> Target, how |-> "requests"])
    /\ pc' = "returned"
    /\ UNCHANGED <<use_selenium, site, fp_sel, pending, sessions, soup,
                   category_links, link_i, all_people, json_file, csv_file,
                   returned, outcomes, others>>

\* fetch_page_requests raises; fetch_page, lines 87-91: with Selenium the
\* handler calls fetch_page_selenium, without it the exception goes on
RequestsFails ==
    /\ pc = "requests"
    /\ fetch_log' = Append(fetch_log, [target |-> Target, how |-> "requests"])
    /\ pc' = IF SELENIUM_AVAILABLE THEN "selenium" ELSE "raised"
    /\ UNCHANGED <<use_selenium, site, fp_sel, fetched, pending, sessions, soup,
                   category_links, link_i, all_people, json_file, csv_file,
                   returned, outcomes, others>>

\* fetch_page_selenium, lines 49-66: the browser is launched
SeleniumLaunch ==
    /\ pc = "selenium"
    /\ fetch_log' = Append(fetch_log, [target |-> Target, how |-> "selenium"])
    /\ pending' = "none"
    /\ IF ~SELENIUM_AVAILABLE
       THEN pc' = "raised" /\ sessions' = sessions
       ELSE pc' = "sel_get" /\ sessions' = sessions + 1
    /\ UNCHANGED <<use_selenium, site, fp_sel, fetched, soup, category_links,
                   link_i, all_people, json_file, csv_file, returned, outcomes,
                   others>>

\* lines 62-66: the driver cannot be installed or started; there is no session
SeleniumLaunchFails ==
    /\ pc = "selenium"
    /\ SELENIUM_AVAILABLE
    /\ fetch_log' = Append(fetch_log, [target |-> Target, how |-> "selenium"])
    /\ pending' = "none"
    /\ pc' = "raised"
    /\ UNCHANGED <<use_selenium, site, fp_sel, fetched, sessions, soup,
                   category_links, link_i, all_people, json_file, csv_file,
                   returned, outcomes, others>>

\* lines 69-71: driver.get(url) and the settle wait
SeleniumGet ==
    /\ pc = "sel_get"
    /\ pc' = "sel_source"
    /\ UNCHANGED <<use_selenium, site, fp_sel, fetched, pending, sessions, soup,
                   category_links, link_i, all_people, json_file, csv_file,
                   returned, fetch_log, outcomes, others>>

\* a plausible slip: driver.quit() after the try block, not in a finally clause
SeleniumGetFails_noquit ==
    /\ pc = "sel_get"
    /\ pending' = "raise"
    /\ pc' = "raised"
    /\ UNCHANGED <<use_selenium, site, fp_sel, fetched, sessions, soup,
                   category_links, link_i, all_people, json_file, csv_file,
                   returned, fetch_log, outcomes, others>>

\* lines 69-71 raise: the finally clause is entered with the exception
SeleniumGetFails ==
    /\ pc = "sel_get"
    /\ pending' = "raise"
    /\ pc' = "sel_finally"
    /\ UNCHANGED <<use_selenium, site, fp_sel, fetched, sessions, soup,
                   category_links, link_i, all_people, json_file, csv_file,
                   returned, fetch_log, outcomes, others>>

\* lines 72-73: the markup is captured and parsed; the finally clause is
\* entered with the value to return
SeleniumSource ==
    /\ pc = "sel_source"
    /\ \E pg \in ServedFor(site) : fetched' = pg
    /\ pending' = "return"
    /\ pc' = "sel_finally"
    /\ UNCHANGED <<use_selenium, site, fp_sel, sessions, soup, category_links,
                   link_i, all_people, json_file, csv_file, returned, fetch_log,
                   outcomes, others>>

\* lines 72-73 raise
SeleniumSourceFails ==
    /\ pc = "sel_source"
    /\ pending' = "raise"
    /\ pc' = "sel_finally"
    /\ UNCHANGED <<use_selenium, site, fp_sel, fetched, sessions, soup,
                   category_links, link_i, all_people, json_file, csv_file,
                   returned, fetch_log, outcomes, others>>

\* lines 74-75: finally: driver.quit(); then the return or the exception
SeleniumQuit ==
    /\ pc = "sel_finally"
    /\ sessions' = sessions - 1
    /\ pc' = IF pending = "return" THEN "returned" ELSE "raised"
    /\ UNCHANGED <<use_selenium, site, fp_sel, fetched, pending, soup,
                   category_links, link_i, all_people, json_file, csv_file,
                   returned, fetch_log, outcomes, others>>

\* lines 234 and 246: soup = fetch_page(base_url, ...). The optional dump of
\* the page to page_source.html (save_html) writes no state kept here.
LandingFetched ==
    /\ pc = "returned"
    /\ site \in {"landing", "retry"}
    /\ soup' = fetched
    /\ pc' = "extract_main"
    /\ fetched' = <<>>
    /\ UNCHANGED <<use_selenium, site, fp_sel, pending, sessions,
                   category_links, link_i, all_people, json_file, csv_file,
                   returned, fetch_log, outcomes, others>>

\* lines 242-248: the fetch of line 234 raised; in plain mode with Selenium
\* available main calls fetch_page(base_url, use_selenium=True), else the
\* exception leaves main
LandingFailed ==
    /\ pc = "raised"
    /\ site = "landing"
    /\ IF ~use_selenium /\ SELENIUM_AVAILABLE
       THEN site' = "retry" /\ fp_sel' = TRUE /\ pc' = "fetch_page"
       ELSE site' = site /\ fp_sel' = fp_sel /\ pc' = "aborted"
    /\ UNCHANGED <<use_selenium, fetched, pending, sessions, soup, category_links,
                   link_i, all_people, json_file, csv_file, returned, fetch_log,
                   outcomes, others>>

\* line 246 raised, inside the handler: the exception leaves main
RetryFailed ==
    /\ pc = "raised"
    /\ site = "retry"
    /\ pc' = "aborted"
    /\ UNCHANGED <<use_selenium, site, fp_sel, fetched, pending, sessions, soup,
                   category_links, link_i, all_people, json_file, csv_file,
                   returned, fetch_log, outcomes, others>>

\* lines 252-260: the landing page's people are appended; with
\* scrape_subpages the category links are found and the loop begins
ExtractMain ==
    /\ pc = "extract_main"
    /\ all_people' = all_people \o extract_people_data(soup, None)
    /\ IF scrape_subpages
       THEN /\ category_links' = find_category_links(soup, Origin)
            /\ link_i' = 1
            /\ pc' = "loop"
       ELSE /\ UNCHANGED <<category_links, link_i>>
            /\ pc' = "finish"
    /\ UNCHANGED <<use_selenium, site, fp_sel, fetched, pending, sessions, soup,
                   json_file, csv_file, returned, fetch_log, outcomes, others>>

\* line 252 raises, outside any try block: the exception leaves main
ExtractMainFails ==
    /\ pc = "extract_main"
    /\ pc' = "aborted"
    /\ UNCHANGED <<use_selenium, site, fp_sel, fetched, pending, sessions, soup,
                   category_links, link_i, all_people, json_file, csv_file,
                   returned, fetch_log, outcomes, others>>

\* lines 262-265: the next category link; fetch_page(category_url, use_selenium)
LoopNext ==
    /\ pc = "loop"
    /\ link_i <= Len(category_links)
    /\ site' = "category"
    /\ fp_sel' = use_selenium
    /\ pc' = "fetch_page"
    /\ UNCHANGED <<use_selenium, fetched, pending, sessions, soup, category_links,
                   link_i, all_people, json_file, csv_file, returned, fetch_log,
                   outcomes, others>>

\* the category links are exhausted
LoopEnd ==
    /\ pc = "loop"
    /\ link_i > Len(category_links)
    /\ pc' = "finish"
    /\ UNCHANGED <<use_selenium, site, fp_sel, fetched, pending, sessions, soup,
                   category_links, link_i, all_people, json_file, csv_file,
                   returned, fetch_log, outcomes, others>>

\* lines 265-269: the category page's people, with the link's name as the
\* default category, are appended
CategoryFetched ==
    /\ pc = "returned"
    /\ site = "category"
    /\ all_people' = all_people \o
           extract_people_data(fetched, Some(category_links[link_i].name))
    /\ outcomes' = Append(outcomes, [ok |-> TRUE, soup |-> fetched])
    /\ link_i' = link_i + 1
    /\ pc' = "loop"
    /\ fetched' = <<>>
    /\ UNCHANGED <<use_selenium, site, fp_sel, pending, sessions, soup,
                   category_links, json_file, csv_file, returned, fetch_log,
                   others>>

\* a plausible slip: the handler leaves the loop (break, not continue)
skip_category_break ==
    /\ outcomes' = Append(outcomes, [ok |-> FALSE, soup |-> <<>>])
    /\ link_i' = Len(category_links) + 1
    /\ pc' = "loop"
    /\ fetched' = <<>>
    /\ UNCHANGED <<use_selenium, site, fp_sel, pending, sessions, soup,
                   category_links, all_people, json_file, csv_file, returned,
                   fetch_log, others>>

\* lines 270-272: except Exception: the category is skipped, the loop goes on
skip_category ==
    /\ outcomes' = Append(outcomes, [ok |-> FALSE, soup |-> <<>>])
    /\ link_i' = link_i + 1
    /\ pc' = "loop"
    /\ fetched' = <<>>
    /\ UNCHANGED <<use_selenium, site, fp_sel, pending, sessions, soup,
                   category_links, all_people, json_file, csv_file, returned,
                   fetch_log, others>>

\* line 265 raised
CategoryFetchFailed ==
    /\ pc = "raised"
    /\ site = "category"
    /\ skip_category

\* line 266 raises
CategoryExtractFails ==
    /\ pc = "returned"
    /\ site = "category"
    /\ skip_category

\* lines 274-293: with people, both files are written; all_people is returned
Finish ==
    /\ pc = "finish"
    /\ IF all_people # <<>>
       THEN /\ json_file' = save_to_json(json_file, all_people)
            /\ csv_file' = save_to_csv(csv_file, all_people)
       ELSE UNCHANGED <<json_file, csv_file>>
    /\ returned' = Some(all_people)
    /\ pc' = "done"
    /\ UNCHANGED <<use_selenium, site, fp_sel, fetched, pending, sessions, soup,
                   category_links, link_i, all_people, fetch_log, outcomes, others>>

NextMain ==
    \/ MainBegin \/ FetchPage
    \/ RequestsOk \/ RequestsFails
    \/ SeleniumLaunch \/ SeleniumLaunchFails
    \/ SeleniumGet \/ SeleniumGetFails
    \/ SeleniumSource \/ SeleniumSourceFails
    \/ SeleniumQuit
    \/ LandingFetched \/ LandingFailed \/ RetryFailed
    \/ ExtractMain \/ ExtractMainFails
    \/ LoopNext \/ LoopEnd
    \/ CategoryFetched \/ CategoryFetchFailed \/ CategoryExtractFails
    \/ Finish

SpecMain == InitMain /\ [][NextMain]_vars

-----------------------------------------------------------------------------
(* SpecSplit: the splitter applied to an input, then to its own name *)

HonorificSet == {honorifics[i] : i \in 1..Len(honorifics)}

\* what the inputs are concatenated from
Pieces ==
    HonorificSet \cup {h \o <<" ">> : h \in HonorificSet}
    \cup { <<" ">>, <<"\n">>, <<"J","a","n","e">>,
           <<"s","t","o","n"," ","S","m","i","t","h">> }

RECURSIVE Concats(_)
Concats(n) ==
    IF n = 0 THEN {<<>>}
    ELSE LET shorter == Concats(n - 1)
         IN  shorter \cup {a \o p : a \in shorter, p \in Pieces}

InitSplit ==
    /\ full_name \in Concats(MaxParts)
    /\ split_pc = "ready"
    /\ first = NoResult
    /\ second = NoResult
    /\ IdleExtract
    /\ IdleMain

\* name, honorific = parse_name_and_honorific(full_name)
Parse ==
    /\ split_pc = "ready"
    /\ first' = parse_name_and_honorific(full_name)
    /\ split_pc' = "once"
    /\ UNCHANGED <<full_name, second, ex_vars, main_vars>>

\* the splitter applied again, to the name it returned
Reparse ==
    /\ split_pc = "once"
    /\ second' = parse_name_and_honorific(first.name)
    /\ split_pc' = "twice"
    /\ UNCHANGED <<full_name, first, ex_vars, main_vars>>

NextSplit == Parse \/ Reparse

SpecSplit == InitSplit /\ [][NextSplit]_vars

-----------------------------------------------------------------------------
(* Properties of the Name Splitter (SpecSplit) *)

\* the recognized prefixes as the specification lists them, most specific first
RecognizedPrefixes == {AssocProf, AProf, Prof, Dr, Mrs, Ms, Mr, Miss}

IsNormalized(s) == Normalize(s) = s

StartsWithPrefix(n) == \E p \in RecognizedPrefixes : StartsWith(n, p)

Applied == split_pc \in {"once", "twice"}

\* C1: for a whitespace-normalized input s, the result is the reference split:
\* when s starts with p + " " for a recognized prefix p, the result is (the
\* trimmed remainder after p, p), so split(p + " " + n) = (n, p) for a base
\* name n that is non-empty and starts with no recognized prefix; otherwise the
\* result is (s, ""). A prefix not followed by a space is never matched.
C1_SplitIsReferenceSplit ==
    (Applied /\ IsNormalized(full_name)) =>
        LET P == {p \in RecognizedPrefixes : StartsWith(full_name, p \o <<" ">>)}
        IN  /\ \A p \in P :
                  first = [name |-> Strip(DropFirst(full_name, Len(p))), honorific |-> p]
            /\ \A p \in P :
                  LET n == DropFirst(full_name, Len(p) + 1)
                  IN  (n # <<>> /\ ~StartsWithPrefix(n)) =>
                          first = [name |-> n, honorific |-> p]
            /\ (P = {}) => first = [name |-> full_name, honorific |-> <<>>]
            /\ \A p \in RecognizedPrefixes :
                  (first.honorific = p) => StartsWith(full_name, p \o <<" ">>)

\* a normalized "Mrs <name>" has been split
C1_Witness ==
    /\ split_pc = "once"
    /\ full_name = Mrs \o <<" ">> \o <<"J","a","n","e">>
    /\ first = [name |-> <<"J","a","n","e">>, honorific |-> Mrs]

\* "Mrston Smith" keeps its name and gets no honorific
C1_WitnessNoSpace ==
    /\ split_pc = "once"
    /\ full_name = Mr \o <<"s","t","o","n"," ","S","m","i","t","h">>
    /\ first = [name |-> full_name, honorific |-> <<>>]

\* the input carries two recognized prefixes in a row
Stacked(s) ==
    \E p1 \in RecognizedPrefixes :
        /\ StartsWith(Strip(s), p1 \o <<" ">>)
        /\ \E p2 \in RecognizedPrefixes :
               StartsWith(LStrip(DropFirst(Strip(s), Len(p1) + 1)), p2 \o <<" ">>)

\* C10 as stated: for every input, the splitter applied to the name it returned
\* gives that name back with an empty honorific
C10_Idempotent ==
    (split_pc = "twice") => second = [name |-> first.name, honorific |-> <<>>]

\* C10 as amended: the splitter strips one prefix per application. For an input
\* that does not carry two recognized prefixes in a row, the second application
\* returns the first one's name unchanged with an empty honorific; for an input
\* that does, the second application strips the next prefix.
C10_IdempotentUnlessStacked ==
    (split_pc = "twice") =>
        /\ ~Stacked(full_name) => second = [name |-> first.name, honorific |-> <<>>]
        /\ Stacked(full_name) =>
               /\ second.honorific \in RecognizedPrefixes
               /\ StartsWith(first.name, second.honorific \o <<" ">>)
               /\ second.name = LStrip(DropFirst(first.name, Len(second.honorific) + 1))
               /\ second.name # first.name

\* a single prefix has been stripped and the second application changed nothing
C10_Witness ==
    /\ split_pc = "twice"
    /\ full_name = Dr \o <<" ">> \o <<"J","a","n","e">>
    /\ first = [name |-> <<"J","a","n","e">>, honorific |-> Dr]
    /\ second = [name |-> <<"J","a","n","e">>, honorific |-> <<>>]

-----------------------------------------------------------------------------
(* Properties of the Card Extractor (SpecExtract) *)

\* the loop of ExtractCard and the function extract_people_data agree
ExtractStepsAgree ==
    (ex_pc = "done") => people = extract_people_data(page, default_category)

\* default_category when one is given (and is not the empty string), else
\* "General"
DefaultOrGeneral ==
    IF default_category.given /\ default_category.val # <<>>
    THEN default_category.val
    ELSE General

\* the heading at position j qualifies: it carries an id, and its text is
\* non-empty and is not a boilerplate label
Qualifies(j) ==
    /\ page[j].kind = "h2"
    /\ page[j].id
    /\ Strip(page[j].text) # <<>>
    /\ Strip(page[j].text) \notin {FeaturedContent, SiteFooter}

\* j is the nearest level-2 heading with an id before position i
NearestIdHeading(j, i) ==
    /\ j \in 1..(i - 1)
    /\ page[j].kind = "h2" /\ page[j].id
    /\ \A k \in (j + 1)..(i - 1) : ~(page[k].kind = "h2" /\ page[k].id)

\* the positions of the cards that are emitted (those with a name heading)
EmittedCards == SelectSeq(Positions(page), LAMBDA i : page[i].kind = "card" /\ page[i].header)

Categories == [n \in 1..Len(people) |-> people[n].category]

\* C2: categories are assigned by one forward scan with a running
\* current_category, initially default_category, else "General". At each card,
\* in document order: when the nearest preceding level-2 heading with an id
\* qualifies, current_category becomes that heading's text; otherwise it is
\* left as it was (a non-qualifying heading never switches it). The card's
\* record takes the current_category. On the page H1, A, B, H2, C,
\* "Site footer", D the categories are H1, H1, H2, H2.
C2_ForwardScanCategory ==
    [][ /\ (ex_pc = "begin") =>
              current_category' =
                  DefaultOrGeneral
        /\ (ex_pc = "loop" /\ card_n < Len(cards)) =>
              LET i == cards[card_n + 1]
                  switch == \E j \in 1..Len(page) : NearestIdHeading(j, i) /\ Qualifies(j)
              IN  /\ card_n' = card_n + 1
                  /\ page[i].kind = "card"
                  /\ \A c \in 1..Len(page) :
                        (page[c].kind = "card" /\ c < i) => \E m \in 1..card_n : cards[m] = c
                  /\ \A j \in 1..Len(page) :
                        (NearestIdHeading(j, i) /\ Qualifies(j)) =>
                            current_category' = Strip(page[j].text)
                  /\ ~switch => current_category' = current_category
                  /\ page[i].header =>
                        /\ Len(people') = Len(people) + 1
                        /\ people'[Len(people')].category = current_category'
                  /\ \A n \in 1..Len(people) : people'[n] = people[n]
        /\ (ex_pc' = "done" /\ page = ScenarioPage /\ ~default_category.given) =>
              Categories' = <<H1Text, H1Text, H2Text, H2Text>>
      ]_vars

\* the scenario page has been scanned: H1, H1, H2, H2
C2_Witness ==
    /\ ex_pc = "done"
    /\ page = ScenarioPage
    /\ ~default_category.given
    /\ Categories = <<H1Text, H1Text, H2Text, H2Text>>

\* C9 as stated: the category of each emitted record is the text of the last
\* qualifying level-2 heading before the card, or default_category when no
\* qualifying heading precedes the card, or "General" without a default
C9_LastQualifyingHeading ==
    \A n \in 1..Len(people) :
        LET i == EmittedCards[n]
            Q == {j \in 1..(i - 1) : Qualifies(j)}
        IN  people[n].category =
                (IF Q # {} THEN Strip(page[Max(Q)].text)
                 ELSE DefaultOrGeneral)

\* C9 as amended: the category of each emitted record is the text of the
\* nearest id-bearing level-2 heading before the last card, at or before the
\* record's own card, whose nearest preceding id-bearing level-2 heading
\* qualifies; default_category when there is no such card; "General" without
\* a default. A qualifying heading that no card follows before the next
\* id-bearing heading is never seen by the scan.
C9_LastHeadingSeenByACard ==
    \A n \in 1..Len(people) :
        LET i == EmittedCards[n]
            Seen == {c \in 1..i : /\ page[c].kind = "card"
                                  /\ \E j \in 1..c : NearestIdHeading(j, c) /\ Qualifies(j)}
        IN  IF Seen # {}
            THEN \E j \in 1..i : /\ NearestIdHeading(j, Max(Seen))
                                 /\ people[n].category = Strip(page[j].text)
            ELSE people[n].category =
                     DefaultOrGeneral

\* a qualifying heading, then a boilerplate heading, then a card: the card
\* keeps the default
C9_Witness ==
    /\ ex_pc = "done"
    /\ page = <<HeadingH1, HeadingFooter, CardJane>>
    /\ ~default_category.given
    /\ Categories = <<General>>

\* C4: every emitted record has a non-empty name
C4_NameNeverEmpty ==
    \A n \in 1..Len(people) : people[n].name # <<>>

\* u is an absolute URL: a scheme, "://", and a host
IsAbsoluteUrl(u) ==
    \E i \in 2..Len(u) :
        /\ Len(u) >= i + 3
        /\ SubSeq(u, i, i + 2) = <<":","/","/">>
        /\ \A k \in 1..(i - 1) : u[k] \notin {":", "/", " ", "\n"}
        /\ u[i + 3] # "/"

\* C5: the profile_url of every record is "N/A" (the card has no name link) or
\* an absolute URL: an href that is already absolute is kept unchanged, an
\* href beginning with "/" becomes origin + href, any other href becomes
\* origin + "/" + href
C5_ProfileUrlAbsolute ==
    \A n \in 1..Len(people) :
        LET card == page[EmittedCards[n]]
            url == people[n].profile_url
        IN  IF ~card.link THEN url = NA
            ELSE /\ IsAbsoluteUrl(url)
                 /\ url = (IF IsAbsoluteUrl(card.href) THEN card.href
                           ELSE IF StartsWith(card.href, <<"/">>) THEN Origin \o card.href
                           ELSE Origin \o <<"/">> \o card.href)

-----------------------------------------------------------------------------
(* Properties of the Crawl Orchestrator (SpecMain) *)

\* the records of the pages scraped with success, in visitation order: the
\* landing page's, then each category page's, nothing removed
RECURSIVE CategoryRecords(_)
CategoryRecords(k) ==
    IF k = 0 THEN <<>>
    ELSE CategoryRecords(k - 1) \o
         (IF outcomes[k].ok
          THEN extract_people_data(outcomes[k].soup, Some(category_links[k].name))
          ELSE <<>>)

Expected == extract_people_data(soup, None) \o CategoryRecords(Len(outcomes))

IsPrefix(a, b) == Len(a) <= Len(b) /\ SubSeq(b, 1, Len(a)) = a

\* the CSV file read back: one record per row after the header row, each
\* column under the header's name
CsvRecords(file) ==
    IF file.content = <<>> THEN <<>>
    ELSE LET header == file.content[1]
         IN  [n \in 1..(Len(file.content) - 1) |->
                 [f \in {header[c] : c \in 1..Len(header)} |->
                     file.content[n + 1][CHOOSE c \in 1..Len(header) : header[c] = f]]]

\* C3: a category sub-page whose fetch or extraction fails is skipped and the
\* run does not abort: the records accumulated so far are left unchanged, the
\* next category is visited, and at the end every category link has been
\* visited and all the records of the landing page and of the categories
\* scraped with success are in the returned list and in the persisted output.
C3_FailedCategorySkipped ==
    /\ [][ /\ (site = "category" /\
                 (pc = "raised" \/ (pc = "returned" /\ ~outcomes'[Len(outcomes')].ok))) =>
                 /\ all_people' = all_people
                 /\ link_i' = link_i + 1
                 /\ pc' = "loop"
           /\ (pc = "loop" \/ site = "category") => pc' # "aborted"
           /\ IsPrefix(all_people, all_people')
         ]_vars
    /\ [](pc = "done" =>
              /\ scrape_subpages => Len(outcomes) = Len(category_links)
              /\ returned = Some(all_people)
              /\ all_people = Expected
              /\ all_people # <<>> =>
                    /\ json_file.content = all_people
                    /\ CsvRecords(csv_file) = all_people)

\* the first category failed, the second was scraped, and the landing page's
\* records and the second category's are persisted
C3_Witness ==
    /\ pc = "done"
    /\ Len(outcomes) = 2
    /\ ~outcomes[1].ok
    /\ outcomes[2].ok
    /\ extract_people_data(soup, None) # <<>>
    /\ Len(all_people) > Len(extract_people_data(soup, None))
    /\ json_file.content = all_people

\* C6 as stated: whenever main() returns a list L (the landing page's records,
\* then each scraped category's, in visitation order), the persisted JSON and
\* CSV hold exactly L, whatever the prior snapshot and for any L, the empty
\* list included
C6_SnapshotIsReturnedList ==
    (pc = "done") =>
        /\ returned.val = Expected
        /\ json_file = [exists |-> TRUE, content |-> returned.val]
        /\ csv_file.exists
        /\ CsvRecords(csv_file) = returned.val

\* C6 as amended: whenever main() returns a non-empty list L, the persisted
\* JSON and CSV hold exactly L, whatever the prior snapshot; when main()
\* returns the empty list nothing is written and the prior snapshot (or the
\* absence of one) is left as it was.
C6_SnapshotOfNonEmptyRun ==
    (pc = "done") =>
        /\ returned.val = Expected
        /\ returned.val # <<>> =>
              /\ json_file = [exists |-> TRUE, content |-> returned.val]
              /\ csv_file.exists
              /\ CsvRecords(csv_file) = returned.val
        /\ returned.val = <<>> =>
              /\ json_file = prior_json
              /\ csv_file = prior_csv

\* a run that returned people has overwritten an earlier snapshot
C6_Witness ==
    /\ pc = "done"
    /\ prior_json.exists
    /\ returned.val # <<>>
    /\ json_file.content = returned.val
    /\ json_file # prior_json
    /\ CsvRecords(csv_file) = returned.val

\* the scripted-browser fetches of the landing page attempted so far
LandingSeleniumAttempts ==
    {k \in 1..Len(fetch_log) : fetch_log[k].target = 0 /\ fetch_log[k].how = "selenium"}

\* C7: in a run started in plain-HTTP mode with the scripted browser
\* available, the scripted-browser fetch of the landing page is attempted
\* once when the plain fetch fails, and when that attempt fails too the run
\* aborts without a further fetch attempt: no run makes a second one
C7_SingleFallbackAttempt ==
    (~called_with /\ SELENIUM_AVAILABLE) => Cardinality(LandingSeleniumAttempts) <= 1

\* C8: a browser session opened by fetch_page_selenium is quit before that
\* fetch returns or raises: at most one session is open at any time, and one
\* is open only between the launch and the finally clause of one fetch, so
\* none is open when a fetch begins, returns or raises, or when the run ends.
C8_SessionQuitOnEveryPath ==
    /\ sessions \in {0, 1}
    /\ (sessions = 1) <=> (pc \in {"sel_get", "sel_source", "sel_finally"})

\* a scripted-browser fetch has raised after its session was opened, and the
\* session is closed
C8_Witness ==
    /\ pc = "raised"
    /\ pending = "raise"
    /\ sessions = 0

====
